---- MODULE Spec2Model ----
(***************************************************************************)
(* Model of minecraft_proxy.py: a TCP relay with a lock-protected          *)
(* allow-list of IP networks, a control console and cooperative shutdown.  *)
(***************************************************************************)
EXTENDS Integers, Sequences, FiniteSets, TLC

(* ------------------------------ bounds --------------------------------- *)
\* width of an address in bits (32 / 128 in the program)
AddrBits == 2
\* number of connections the listener accepts in one run
MaxConns == 1
\* cap on the length of the in-memory allow-list
MaxNets == 2

(* --------------------------- pure helpers ------------------------------ *)
RECURSIVE Pow2(_)
Pow2(n) == IF n = 0 THEN 1 ELSE 2 * Pow2(n - 1)

RECURSIVE BitAnd(_, _, _)
\* bitwise AND of two w-bit naturals
BitAnd(a, b, w) ==
  IF w = 0 THEN 0
  ELSE (IF a % 2 = 1 /\ b % 2 = 1 THEN 1 ELSE 0) + 2 * BitAnd(a \div 2, b \div 2, w - 1)

ALL_ONES == Pow2(AddrBits) - 1

\* ipaddress: netmask and hostmask of a prefix length
Netmask(plen) == ALL_ONES - (Pow2(AddrBits - plen) - 1)
Hostmask(plen) == Pow2(AddrBits - plen) - 1

(* ----------------------------- text values ----------------------------- *)
\* A piece of text handed to ipaddress: a bare address, "address/prefix", or
\* something that is neither.
Bare(v, a) == [kind |-> "bare", ver |-> v, addr |-> a, plen |-> 0]
Cidr(v, a, p) == [kind |-> "cidr", ver |-> v, addr |-> a, plen |-> p]
Junk == [kind |-> "junk", ver |-> 0, addr |-> 0, plen |-> 0]

\* the value ipaddress raises ValueError as
ValueError == [ver |-> 0, addr |-> 0, plen |-> 0]

\* ip_network(text, strict=False): host bits are masked off, not refused
ip_network_masking(s) ==
  IF s.kind = "junk" THEN ValueError
  ELSE IF s.kind = "bare" THEN [ver |-> s.ver, addr |-> s.addr, plen |-> AddrBits]
  ELSE [ver |-> s.ver, addr |-> BitAnd(s.addr, Netmask(s.plen), AddrBits), plen |-> s.plen]

\* ipaddress.ip_network(text), strict=True (the default)
ip_network(s) ==
  IF s.kind = "junk" THEN ValueError
  ELSE IF s.kind = "bare" THEN [ver |-> s.ver, addr |-> s.addr, plen |-> AddrBits]
  ELSE IF BitAnd(s.addr, Hostmask(s.plen), AddrBits) # 0 THEN ValueError
  ELSE [ver |-> s.ver, addr |-> s.addr, plen |-> s.plen]

\* ipaddress.ip_address(text): only a bare address parses
ip_address(s) ==
  IF s.kind = "bare" THEN [ver |-> s.ver, addr |-> s.addr, plen |-> AddrBits]
  ELSE ValueError

\* str(net): always "address/prefix"
NetStr(net) == Cidr(net.ver, net.addr, net.plen)

\* containment that forgets to compare the address families
Contains_AnyVersion(net, ip) ==
  BitAnd(ip.addr, Netmask(net.plen), AddrBits) = net.addr

\* _BaseNetwork.__contains__: ip_obj in net
Contains(net, ip) ==
  IF net.ver # ip.ver THEN FALSE
  ELSE BitAnd(ip.addr, Netmask(net.plen), AddrBits) = net.addr

RECURSIVE AnyContains(_, _)
\* any(ip_obj in net for net in allowed_networks): scan in list order,
\* stop at the first hit
AnyContains(nets, ip) ==
  IF nets = <<>> THEN FALSE
  ELSE IF Contains(Head(nets), ip) THEN TRUE
  ELSE AnyContains(Tail(nets), ip)

\* is_allowed(ip_str) evaluated against a given list
is_allowed(ip_str, nets) ==
  IF ip_address(ip_str) = ValueError THEN FALSE
  ELSE AnyContains(nets, ip_address(ip_str))

\* new_net in allowed_networks
InList(net, nets) == \E i \in 1..Len(nets) : nets[i] = net

RECURSIVE ListRemove(_, _)
\* list.remove(x): drops the first element equal to x
ListRemove(nets, net) ==
  IF nets = <<>> THEN <<>>
  ELSE IF Head(nets) = net THEN Tail(nets)
  ELSE <<Head(nets)>> \o ListRemove(Tail(nets), net)

(* ------------------------------ the file ------------------------------- *)
MissingFile == [kind |-> "missing", data |-> <<>>]
\* a file json.load cannot read (also what a failed write can leave behind)
CorruptFile == [kind |-> "corrupt", data |-> <<>>]
JsonFile(strs) == [kind |-> "ok", data |-> strs]

\* load_allowed_networks()
load_allowed_networks(f) ==
  IF f.kind = "missing" THEN <<>>
  ELSE IF f.kind = "corrupt" THEN <<>>
  ELSE IF \E i \in 1..Len(f.data) : ip_network(f.data[i]) = ValueError THEN <<>>
  ELSE [i \in 1..Len(f.data) |-> ip_network(f.data[i])]

\* save_allowed_networks(networks): the file a successful write leaves
save_allowed_networks(nets) == JsonFile([i \in 1..Len(nets) |-> NetStr(nets[i])])

(* ------------------------------- inputs -------------------------------- *)
\* texts typed after add/remove and found in the file at startup
NetTexts ==
  { Bare(4, 1),
    Cidr(4, 1, AddrBits),
    Cidr(4, 0, AddrBits - 1),
    Cidr(4, 1, AddrBits - 1),
    Junk }

\* source addresses of accepted connections (AF_INET: always IPv4 text)
ClientIPs == { Bare(4, 1) }

\* address texts is_allowed is asked about: the lowest addresses and the
\* highest one of both families, and two texts that are no address
AllIPTexts ==
  { Bare(v, a) : v \in {4, 6}, a \in {0, 1, 2, ALL_ONES} } \cup { Junk, Cidr(4, 0, AddrBits) }

\* allow-list files found at startup: absent, unreadable, written by an earlier
\* run, or edited by hand (a bare address, an entry twice, an entry with host
\* bits set, an entry that is no network)
InitFiles ==
  { MissingFile,
    CorruptFile,
    JsonFile(<<Cidr(6, 0, AddrBits - 1)>>),
    JsonFile(<<Bare(4, 1), Cidr(4, 1, AddrBits)>>),
    JsonFile(<<Cidr(4, 1, AddrBits), Cidr(4, 1, AddrBits - 1)>>),
    JsonFile(<<Cidr(4, 0, AddrBits - 1), Junk>>) }

\* a console line: the command word and the text after it
Line(op, arg) == [op |-> op, arg |-> arg]
NoLine == Line("none", Junk)
ExitWords == {"exit", "quit", "stop"}
Lines ==
  { Line(op, t) : op \in {"add", "remove"}, t \in NetTexts }
    \cup { Line(w, Junk) : w \in ExitWords }
    \cup { Line("list", Junk), Line("other", Junk) }

Conns == 1..MaxConns

\* values of allowed_lock
LockFree == [holder |-> "free", c |-> 0]
LockConsole == [holder |-> "console", c |-> 0]
LockHandler(c) == [holder |-> "handler", c |-> c]
Dirs == {"c2s", "s2c"}

(* ------------------------------- state --------------------------------- *)
VARIABLES
  file,              \* contents of allowed_ips.json
  allowed_networks,  \* the global list
  allowed_lock,      \* who holds threading.Lock(): nobody, the console or a handler
  stop_event,        \* threading.Event
  consolePc,         \* position of command_interface
  cmd,               \* the line command_interface is working on
  exc,               \* an exception has left command_interface uncaught
  out,               \* what the current command printed on the console last
  prevList,          \* allowed_networks when the current line was read
  mainPc,            \* position of the main thread (start_proxy, then exit)
  conn               \* per accepted connection: handler, sockets, pumps

vars == <<file, allowed_networks, allowed_lock, stop_event, consolePc, cmd, exc,
          out, prevList, mainPc, conn>>

registryVars == <<file, allowed_networks>>
consoleVars == <<consolePc, cmd, exc, out, prevList>>

\* the records of proxy.log that concern a connection: the handler's records
\* by the event they report; a completion record with the direction it names
\* and its Bytes figure less the bytes that direction wrote completely
LogAttempt == "attempt"
LogRejected == "rejected"
LogDialError == "dial_error"
LogAccepted == "accepted"
LogConnected == "connected"
LogClosed(d, off) == [ev |-> "closed", dir |-> d, off |-> off]

\* log: the records the handle_client thread wrote for the connection, in the
\* order written. fwdlog[d]: the records the forward thread of direction d
\* wrote, in the order written. excess[d]: total_bytes of direction d less the
\* bytes of the chunks that sendall wrote completely (total_bytes itself has
\* no bound)
FreeConn ==
  [pc |-> "free", ip |-> Junk, allowed |-> "unset", client |-> "none",
   server |-> "none", dials |-> 0, pump |-> [d \in Dirs |-> "idle"],
   log |-> <<>>, fwdlog |-> [d \in Dirs |-> <<>>], excess |-> [d \in Dirs |-> 0]]

\* the process is running: daemon threads live only as long as it does
Alive == mainPc # "terminated"

\* A thread of c is running: its handler, or a forward thread
Running(rec) ==
  \/ rec.pc \notin {"free", "done", "dead"}
  \/ \E d \in Dirs : rec.pump[d] \in {"recv", "send", "fin", "fin2"}

\* c is the connection accepted last and the frame of start_proxy is still
\* there: its local client_sock (line 122) refers to the client socket of c.
\* The frame goes when start_proxy returns; when an exception leaves
\* start_proxy the traceback keeps the frame until the process ends.
Latest(c) ==
  /\ mainPc \in {"check", "accept", "raised"}
  /\ \A k \in Conns : k > c => conn[k].pc = "free"

\* A socket is referred to by the frames of the running threads of its
\* connection, and the client socket accepted last by start_proxy as well.
\* CPython closes a socket when its last reference goes: when an exception ends
\* the last thread of a connection, accept rebinds client_sock, or start_proxy
\* returns. (What becomes of the sockets when the process ends is not
\* modelled.)
Dropped(rec, held) ==
  IF Running(rec) THEN rec
  ELSE [rec EXCEPT !.server = IF @ = "open" THEN "closed" ELSE @,
                   !.client = IF @ = "open" /\ ~held THEN "closed" ELSE @]

\* Every log_event call opens logs/proxy.log anew (lines 27-32) and raises
\* OSError when that fails; no caller catches that, so the exception ends the
\* calling thread at the call. The actions named ...LogFail are those outcomes.
\* Init: the console thread is started, and start_proxy has either reached its
\* loop or was left by an exception of bind, listen or its first log_event.

Init ==
  /\ file \in InitFiles
  /\ allowed_networks = load_allowed_networks(file)
  /\ allowed_lock = LockFree
  /\ stop_event = FALSE
  /\ consolePc = "loop"
  /\ cmd = NoLine
  /\ exc = FALSE
  /\ out = "none"
  /\ prevList = <<>>
  /\ mainPc \in {"check", "raised"}
  /\ conn = [c \in Conns |-> FreeConn]

(* --------------------------- command_interface ------------------------- *)
\* a console loop whose test is inverted: it goes on exactly when the flag is set
ConsoleLoop_Inverted ==
  /\ Alive /\ consolePc = "loop"
  /\ consolePc' = IF stop_event THEN "input" ELSE "exited"
  /\ cmd' = NoLine /\ out' = "none" /\ prevList' = <<>>
  /\ UNCHANGED <<registryVars, allowed_lock, stop_event, exc, mainPc, conn>>

\* a console loop that never looks at stop_event
ConsoleLoop_Forever ==
  /\ Alive /\ consolePc = "loop"
  /\ consolePc' = "input"
  /\ cmd' = NoLine /\ out' = "none" /\ prevList' = <<>>
  /\ UNCHANGED <<registryVars, allowed_lock, stop_event, exc, mainPc, conn>>

\* while not stop_event.is_set():
ConsoleLoop ==
  /\ Alive /\ consolePc = "loop"
  /\ consolePc' = IF stop_event THEN "exited" ELSE "input"
  /\ cmd' = NoLine /\ out' = "none" /\ prevList' = <<>>
  /\ UNCHANGED <<registryVars, allowed_lock, stop_event, exc, mainPc, conn>>

\* input() raises something other than EOFError or KeyboardInterrupt (a line
\* that is not valid UTF-8 raises UnicodeDecodeError): the except clause of
\* line 173 does not match and the console thread ends, the flag as it was
ConsoleInputError ==
  /\ Alive /\ consolePc = "input"
  /\ exc' = TRUE
  /\ consolePc' = "dead"
  /\ cmd' = NoLine /\ out' = "none" /\ prevList' = <<>>
  /\ UNCHANGED <<registryVars, allowed_lock, stop_event, mainPc, conn>>

\* the line is an add that would append to a list of MaxNets entries (the
\* operator types no such line: the list has no bound in the program)
GrowsPastBound(line) ==
  /\ line.op = "add"
  /\ ip_network(line.arg) # ValueError
  /\ ~InList(ip_network(line.arg), allowed_networks)
  /\ Len(allowed_networks) >= MaxNets

\* input() returns a line; the branches that need no lock finish here (the
\* locals of a thread that has ended are gone)
ConsoleInput(line) ==
  /\ Alive /\ consolePc = "input"
  /\ ~GrowsPastBound(line)
  /\ IF line.op \in ExitWords
       THEN cmd' = NoLine /\ prevList' = <<>>
       ELSE cmd' = line /\ prevList' = allowed_networks
  /\ IF line.op \in {"add", "remove"}
       THEN IF ip_network(line.arg) = ValueError
              THEN /\ out' = "InvalidFormat"
                   /\ consolePc' = "loop"
              ELSE /\ out' = "none"
                   /\ consolePc' = IF line.op = "add" THEN "add_acq" ELSE "rem_acq"
     ELSE IF line.op = "list"
       THEN /\ out' = "none"
            /\ consolePc' = "list_acq"
     ELSE IF line.op \in ExitWords
       THEN /\ out' = "Stopping"
            /\ consolePc' = "exited"
     ELSE /\ out' = "Usage"
          /\ consolePc' = "loop"
  /\ stop_event' = IF line.op \in ExitWords THEN TRUE ELSE stop_event
  /\ UNCHANGED <<registryVars, allowed_lock, exc, mainPc, conn>>

\* exit, quit or stop is typed and log_event (line 168) raises: it has printed
\* its line (line 30) when open() raises (line 31), before stop_event.set();
\* the console thread ends with the flag as it was
ConsoleStopLogFail(line) ==
  /\ Alive /\ consolePc = "input"
  /\ line.op \in ExitWords
  /\ exc' = TRUE
  /\ consolePc' = "dead"
  /\ cmd' = NoLine /\ out' = "Stopping" /\ prevList' = <<>>
  /\ UNCHANGED <<registryVars, allowed_lock, stop_event, mainPc, conn>>

\* an end-of-input handler that clears the flag
ConsoleEOF_Clear ==
  /\ Alive /\ consolePc = "input"
  /\ stop_event' = FALSE
  /\ consolePc' = "loop"
  /\ UNCHANGED <<registryVars, allowed_lock, cmd, exc, out, prevList, mainPc, conn>>

\* input() raises EOFError
ConsoleEOF ==
  /\ Alive /\ consolePc = "input"
  /\ stop_event' = TRUE
  /\ consolePc' = "loop"
  /\ UNCHANGED <<registryVars, allowed_lock, cmd, exc, out, prevList, mainPc, conn>>

\* with allowed_lock: (entry)
ConsoleAcquire ==
  /\ Alive /\ consolePc \in {"add_acq", "rem_acq", "list_acq"}
  /\ allowed_lock = LockFree
  /\ allowed_lock' = LockConsole
  /\ consolePc' = CASE consolePc = "add_acq" -> "add_body"
                    [] consolePc = "rem_acq" -> "rem_body"
                    [] OTHER -> "list_body"
  /\ UNCHANGED <<registryVars, stop_event, cmd, exc, out, prevList, mainPc, conn>>

\* if new_net in allowed_networks: print, leave the with block;
\* else: allowed_networks.append(new_net)
AddBody ==
  /\ Alive /\ consolePc = "add_body"
  /\ IF InList(ip_network(cmd.arg), allowed_networks)
       THEN /\ out' = "AlreadyPresent"
            /\ consolePc' = "loop"
            /\ allowed_lock' = LockFree
            /\ UNCHANGED allowed_networks
       ELSE /\ allowed_networks' = Append(allowed_networks, ip_network(cmd.arg))
            /\ consolePc' = "save"
            /\ UNCHANGED <<out, allowed_lock>>
  /\ UNCHANGED <<file, stop_event, cmd, exc, prevList, mainPc, conn>>

\* a remove that also closes the client socket of every connection whose
\* address the removed network covers
RemoveBody_KickCovered ==
  /\ Alive /\ consolePc = "rem_body"
  /\ IF InList(ip_network(cmd.arg), allowed_networks)
       THEN /\ allowed_networks' = ListRemove(allowed_networks, ip_network(cmd.arg))
            /\ consolePc' = "save"
            /\ conn' = [c \in Conns |->
                          IF /\ conn[c].pc # "free"
                             /\ ip_address(conn[c].ip) # ValueError
                             /\ Contains(ip_network(cmd.arg), ip_address(conn[c].ip))
                            THEN [conn[c] EXCEPT !.client = "closed"]
                            ELSE conn[c]]
            /\ UNCHANGED <<out, allowed_lock>>
       ELSE /\ out' = "NotFound"
            /\ consolePc' = "loop"
            /\ allowed_lock' = LockFree
            /\ UNCHANGED <<allowed_networks, conn>>
  /\ UNCHANGED <<file, stop_event, cmd, exc, prevList, mainPc>>

\* a remove that empties the list when the entry is absent
RemoveBody_AbsentClears ==
  /\ Alive /\ consolePc = "rem_body"
  /\ IF InList(ip_network(cmd.arg), allowed_networks)
       THEN /\ allowed_networks' = ListRemove(allowed_networks, ip_network(cmd.arg))
            /\ consolePc' = "save"
            /\ UNCHANGED <<out, allowed_lock>>
       ELSE /\ out' = "NotFound"
            /\ consolePc' = "loop"
            /\ allowed_lock' = LockFree
            /\ allowed_networks' = <<>>
  /\ UNCHANGED <<file, stop_event, cmd, exc, prevList, mainPc, conn>>

\* if net_to_remove in allowed_networks: allowed_networks.remove(...)
\* else: print, leave the with block
RemoveBody ==
  /\ Alive /\ consolePc = "rem_body"
  /\ IF InList(ip_network(cmd.arg), allowed_networks)
       THEN /\ allowed_networks' = ListRemove(allowed_networks, ip_network(cmd.arg))
            /\ consolePc' = "save"
            /\ UNCHANGED <<out, allowed_lock>>
       ELSE /\ out' = "NotFound"
            /\ consolePc' = "loop"
            /\ allowed_lock' = LockFree
            /\ UNCHANGED allowed_networks
  /\ UNCHANGED <<file, stop_event, cmd, exc, prevList, mainPc, conn>>

\* for net in allowed_networks: print(" -", net); leave the with block
ListBody ==
  /\ Alive /\ consolePc = "list_body"
  /\ out' = "Listed"
  /\ consolePc' = "loop"
  /\ allowed_lock' = LockFree
  /\ UNCHANGED <<registryVars, stop_event, cmd, exc, prevList, mainPc, conn>>

\* save_allowed_networks(allowed_networks), log_event, print; leave the with block
SaveOk ==
  /\ Alive /\ consolePc = "save"
  /\ file' = save_allowed_networks(allowed_networks)
  /\ out' = IF cmd.op = "add" THEN "Added" ELSE "Removed"
  /\ consolePc' = "loop"
  /\ allowed_lock' = LockFree
  /\ UNCHANGED <<allowed_networks, stop_event, cmd, exc, prevList, mainPc>>
  /\ UNCHANGED conn

\* a failed save that leaves the with block without releasing the lock
SaveFail_KeepLock(left) ==
  /\ Alive /\ consolePc = "save"
  /\ left \in {file, CorruptFile}
  /\ file' = left
  /\ exc' = TRUE
  /\ consolePc' = "dead"
  /\ cmd' = NoLine /\ prevList' = <<>>
  /\ UNCHANGED <<allowed_networks, allowed_lock, stop_event, out, mainPc, conn>>

\* open() or the write raises OSError: the file is untouched or left truncated.
\* The with block releases the lock, no except clause of command_interface
\* matches, and the exception ends the console thread (its locals with it).
SaveFail(left) ==
  /\ Alive /\ consolePc = "save"
  /\ left \in {file, CorruptFile}
  /\ file' = left
  /\ exc' = TRUE
  /\ allowed_lock' = LockFree
  /\ consolePc' = "dead"
  /\ cmd' = NoLine /\ prevList' = <<>>
  /\ UNCHANGED <<allowed_networks, stop_event, out, mainPc, conn>>

\* the file is written, then log_event (line 144 or 156) raises: it has
\* printed its line (line 30) when open() raises (line 31); the with block
\* releases the lock, the print of line 145 or 157 is never reached, and the
\* exception ends the console thread
SaveLogFail ==
  /\ Alive /\ consolePc = "save"
  /\ file' = save_allowed_networks(allowed_networks)
  /\ out' = IF cmd.op = "add" THEN "LogAdded" ELSE "LogRemoved"
  /\ exc' = TRUE
  /\ allowed_lock' = LockFree
  /\ consolePc' = "dead"
  /\ cmd' = NoLine /\ prevList' = <<>>
  /\ UNCHANGED <<allowed_networks, stop_event, mainPc, conn>>

(* ------------------------ signal_handler, __main__ --------------------- *)
\* SIGINT: signal_handler runs in the main thread
SignalHandler ==
  /\ Alive
  /\ stop_event' = TRUE
  /\ UNCHANGED <<registryVars, allowed_lock, consoleVars, mainPc, conn>>

\* SIGINT, and log_event (line 180) raises before stop_event.set(): the
\* exception surfaces in the main thread, inside start_proxy, where nothing
\* catches it
SignalHandlerLogFail ==
  /\ mainPc \in {"check", "accept"}
  /\ mainPc' = "raised"
  /\ UNCHANGED <<registryVars, allowed_lock, stop_event, consoleVars, conn>>

\* the interpreter exits after start_proxy returns (whether or not the last
\* log_event, line 192, raises) or raises; daemon threads end with it
MainExit ==
  /\ mainPc \in {"stopped", "raised"}
  /\ mainPc' = "terminated"
  /\ UNCHANGED <<registryVars, allowed_lock, stop_event, consoleVars, conn>>

(* ------------------------------ start_proxy ---------------------------- *)
\* an accept loop that never looks at stop_event
ListenerCheck_IgnoreStop ==
  /\ mainPc = "check"
  /\ mainPc' = "accept"
  /\ UNCHANGED <<registryVars, allowed_lock, stop_event, consoleVars, conn>>

\* while not stop_event.is_set(): with the flag set start_proxy returns, and
\* its local client_sock goes with its frame
ListenerCheck ==
  /\ mainPc = "check"
  /\ mainPc' = IF stop_event THEN "stopped" ELSE "accept"
  /\ conn' = IF stop_event THEN [k \in Conns |-> Dropped(conn[k], FALSE)] ELSE conn
  /\ UNCHANGED <<registryVars, allowed_lock, stop_event, consoleVars>>

\* s.accept() raises socket.timeout: continue
AcceptTimeout ==
  /\ mainPc = "accept"
  /\ mainPc' = "check"
  /\ UNCHANGED <<registryVars, allowed_lock, stop_event, consoleVars, conn>>

\* s.accept() raises an OSError that is no timeout (no free file descriptor,
\* for one): no except clause matches and start_proxy is left by the exception
AcceptError ==
  /\ mainPc = "accept"
  /\ mainPc' = "raised"
  /\ UNCHANGED <<registryVars, allowed_lock, stop_event, consoleVars, conn>>

\* s.accept() returns a connection; a handler thread is started for it
AcceptConn(c, ip) ==
  /\ mainPc = "accept"
  /\ conn[c].pc = "free"
  /\ \A d \in Conns : d < c => conn[d].pc # "free"
  /\ conn' = [k \in Conns |->
                IF k = c THEN [FreeConn EXCEPT !.pc = "start", !.ip = ip,
                                               !.client = "open"]
                ELSE Dropped(conn[k], FALSE)]
  /\ mainPc' = "check"
  /\ UNCHANGED <<registryVars, allowed_lock, stop_event, consoleVars>>

(* ------------------------ handle_client, is_allowed -------------------- *)
\* the socket a direction reads from and the one it writes to
Source(d) == IF d = "c2s" THEN "client" ELSE "server"
Destination(d) == IF d = "c2s" THEN "server" ELSE "client"
SockState(c, which) == IF which = "client" THEN conn[c].client ELSE conn[c].server

\* log_event("Connection attempt ..."), before anything else
HandlerStart(c) ==
  /\ Alive /\ conn[c].pc = "start"
  /\ conn' = [conn EXCEPT ![c].log = Append(@, LogAttempt), ![c].pc = "acq"]
  /\ UNCHANGED <<registryVars, allowed_lock, stop_event, consoleVars, mainPc>>

\* that log_event raises OSError (open() of the log file fails): the handler
\* thread ends there, with nothing logged, checked, dialled or closed
HandlerStartFail(c) ==
  /\ Alive /\ conn[c].pc = "start"
  /\ conn' = [conn EXCEPT ![c] = Dropped([@ EXCEPT !.pc = "dead"], Latest(c))]
  /\ UNCHANGED <<registryVars, allowed_lock, stop_event, consoleVars, mainPc>>

\* is_allowed: parse the address, then enter the lock (waiting while it is held)
HandlerAcquire(c) ==
  /\ Alive /\ conn[c].pc = "acq"
  /\ IF ip_address(conn[c].ip) = ValueError
       THEN /\ conn' = [conn EXCEPT ![c].allowed = "no", ![c].pc = "reject"]
            /\ UNCHANGED allowed_lock
       ELSE /\ allowed_lock = LockFree
            /\ allowed_lock' = LockHandler(c)
            /\ conn' = [conn EXCEPT ![c].pc = "check"]
  /\ UNCHANGED <<registryVars, stop_event, consoleVars, mainPc>>

\* return any(...) inside the with block: evaluate, release, branch
HandlerCheck(c) ==
  /\ Alive /\ conn[c].pc = "check"
  /\ allowed_lock' = LockFree
  /\ conn' = IF is_allowed(conn[c].ip, allowed_networks)
               THEN [conn EXCEPT ![c].allowed = "yes", ![c].pc = "dial"]
               ELSE [conn EXCEPT ![c].allowed = "no", ![c].pc = "reject"]
  /\ UNCHANGED <<registryVars, stop_event, consoleVars, mainPc>>

\* log the rejection; client_sock.close(); return
HandlerReject(c) ==
  /\ Alive /\ conn[c].pc = "reject"
  /\ conn' = [conn EXCEPT ![c].log = Append(@, LogRejected),
                          ![c].client = "closed", ![c].pc = "done"]
  /\ UNCHANGED <<registryVars, allowed_lock, stop_event, consoleVars, mainPc>>

\* log_event (line 92) raises: the handler thread ends before
\* client_sock.close(), with no rejection record
HandlerRejectLogFail(c) ==
  /\ Alive /\ conn[c].pc = "reject"
  /\ conn' = [conn EXCEPT ![c] = Dropped([@ EXCEPT !.pc = "dead"], Latest(c))]
  /\ UNCHANGED <<registryVars, allowed_lock, stop_event, consoleVars, mainPc>>

\* socket.create_connection succeeds (lines 96-97)
HandlerDialOk(c) ==
  /\ Alive /\ conn[c].pc = "dial"
  /\ conn' = [conn EXCEPT ![c].server = "open", ![c].dials = @ + 1,
                          ![c].pc = "log_accepted"]
  /\ UNCHANGED <<registryVars, allowed_lock, stop_event, consoleVars, mainPc>>

\* log_event("Connection from ... accepted and forwarded") (line 103)
HandlerLogAccepted(c) ==
  /\ Alive /\ conn[c].pc = "log_accepted"
  /\ conn' = [conn EXCEPT ![c].log = Append(@, LogAccepted),
                          ![c].pc = "log_connected"]
  /\ UNCHANGED <<registryVars, allowed_lock, stop_event, consoleVars, mainPc>>

\* log_event("... connected -> ...") (line 104)
HandlerLogConnected(c) ==
  /\ Alive /\ conn[c].pc = "log_connected"
  /\ conn' = [conn EXCEPT ![c].log = Append(@, LogConnected),
                          ![c].pc = "start_c2s"]
  /\ UNCHANGED <<registryVars, allowed_lock, stop_event, consoleVars, mainPc>>

\* after the dial succeeded, the first (n = 0) or the second (n = 1) log_event
\* (lines 103, 104) raises: the handler thread ends with the records written
\* so far and no forward thread started. Nothing closes the sockets; the
\* backend socket, which only the handler's frame referred to, is closed as
\* that frame is released.
HandlerDialOkLogFail(c, n) ==
  /\ Alive /\ n \in {0, 1}
  /\ conn[c].pc = (IF n = 0 THEN "log_accepted" ELSE "log_connected")
  /\ conn' = [conn EXCEPT ![c] = Dropped([@ EXCEPT !.pc = "dead"], Latest(c))]
  /\ UNCHANGED <<registryVars, allowed_lock, stop_event, consoleVars, mainPc>>

\* threading.Thread(target=forward, ...).start() (line 108, then line 109):
\* the thread of direction d is started, and after the second the handler
\* returns. The first thread runs (and can end, closing both sockets) before
\* the second is started; a thread started on a source that is closed already
\* has its first recv raise at once.
HandlerStartForward(c, d) ==
  /\ Alive /\ conn[c].pc = (IF d = "c2s" THEN "start_c2s" ELSE "start_s2c")
  /\ conn' = [conn EXCEPT ![c].pump[d] =
                             IF SockState(c, Source(d)) = "open" THEN "recv" ELSE "fin",
                          ![c].pc = IF d = "c2s" THEN "start_s2c" ELSE "done"]
  /\ UNCHANGED <<registryVars, allowed_lock, stop_event, consoleVars, mainPc>>

\* socket.create_connection raises and log_event (line 99) raises inside the
\* except block: the handler thread ends before client_sock.close()
HandlerDialFailLogFail(c) ==
  /\ Alive /\ conn[c].pc = "dial"
  /\ conn' = [conn EXCEPT ![c] = Dropped([@ EXCEPT !.dials = @ + 1, !.pc = "dead"],
                                         Latest(c))]
  /\ UNCHANGED <<registryVars, allowed_lock, stop_event, consoleVars, mainPc>>

\* socket.create_connection raises: log, client_sock.close(), return
HandlerDialFail(c) ==
  /\ Alive /\ conn[c].pc = "dial"
  /\ conn' = [conn EXCEPT ![c].dials = @ + 1, ![c].log = Append(@, LogDialError),
                          ![c].client = "closed", ![c].pc = "done"]
  /\ UNCHANGED <<registryVars, allowed_lock, stop_event, consoleVars, mainPc>>

(* -------------------------------- forward ------------------------------ *)
\* data = source.recv(4096) returns: "data", "eof" (empty read) or "error". A
\* recv that was under way when the other direction closed the source is not
\* interrupted by the close: it returns when the peer sends or closes, so all
\* three outcomes remain. If data arrives and the destination is already
\* closed, the sendall that follows raises at once and the loop is left.
PumpRecv(c, d, got) ==
  /\ Alive /\ conn[c].pump[d] = "recv"
  /\ got \in {"data", "eof", "error"}
  /\ conn' = [conn EXCEPT ![c].pump[d] =
                 IF got = "data" /\ SockState(c, Destination(d)) = "open"
                   THEN "send" ELSE "fin"]
  /\ UNCHANGED <<registryVars, allowed_lock, stop_event, consoleVars, mainPc>>

\* the sizes a chunk of data can have (1..4096 in the program)
ChunkLens == {1, 2}

\* bytes of a chunk of n bytes that sendall wrote completely: all or none count
Written(n, ok) == IF ok THEN n ELSE 0

\* what line 67 adds to total_bytes: it is reached only when sendall returned
Counted(n, ok) == IF ok THEN n ELSE 0

\* destination.sendall(data) returns or raises; total_bytes += len(data), for
\* a chunk of n bytes. A sendall that was under way when the other direction
\* closed the destination can still complete. Back in the loop, a recv called
\* on a source that is already closed raises at once and the loop is left.
PumpSend(c, d, ok, n) ==
  /\ Alive /\ conn[c].pump[d] = "send"
  /\ ok \in BOOLEAN /\ n \in ChunkLens
  /\ conn' = [conn EXCEPT ![c].pump[d] =
                            IF ok /\ SockState(c, Source(d)) = "open"
                              THEN "recv" ELSE "fin",
                          ![c].excess[d] = @ + Counted(n, ok) - Written(n, ok)]
  /\ UNCHANGED <<registryVars, allowed_lock, stop_event, consoleVars, mainPc>>

\* finally: log_event (line 72) raises: the forward thread ends with no
\* completion record and without closing either socket
PumpLogFail(c, d) ==
  /\ Alive /\ conn[c].pump[d] = "fin"
  /\ conn' = [conn EXCEPT ![c] = Dropped([@ EXCEPT !.pump[d] = "dead"], Latest(c))]
  /\ UNCHANGED <<registryVars, allowed_lock, stop_event, consoleVars, mainPc>>

\* finally: log the completion record; source.close()
PumpCloseSource(c, d) ==
  /\ Alive /\ conn[c].pump[d] = "fin"
  /\ conn' = IF Source(d) = "client"
               THEN [conn EXCEPT ![c].fwdlog[d] = Append(@, LogClosed(d, conn[c].excess[d])),
                                 ![c].client = "closed", ![c].pump[d] = "fin2"]
               ELSE [conn EXCEPT ![c].fwdlog[d] = Append(@, LogClosed(d, conn[c].excess[d])),
                                 ![c].server = "closed", ![c].pump[d] = "fin2"]
  /\ UNCHANGED <<registryVars, allowed_lock, stop_event, consoleVars, mainPc>>

\* finally: destination.close(); the thread ends
PumpCloseDestination(c, d) ==
  /\ Alive /\ conn[c].pump[d] = "fin2"
  /\ conn' = IF Destination(d) = "client"
               THEN [conn EXCEPT ![c].client = "closed", ![c].pump[d] = "done"]
               ELSE [conn EXCEPT ![c].server = "closed", ![c].pump[d] = "done"]
  /\ UNCHANGED <<registryVars, allowed_lock, stop_event, consoleVars, mainPc>>

(* ----------------------------- specification --------------------------- *)
Console ==
  \/ ConsoleLoop
  \/ \E line \in Lines : ConsoleInput(line)
  \/ \E line \in Lines : ConsoleStopLogFail(line)
  \/ ConsoleInputError
  \/ ConsoleEOF
  \/ ConsoleAcquire
  \/ AddBody
  \/ RemoveBody
  \/ ListBody
  \/ SaveOk
  \/ SaveLogFail
  \/ \E left \in {file, CorruptFile} : SaveFail(left)

Main ==
  \/ SignalHandler
  \/ SignalHandlerLogFail
  \/ ListenerCheck
  \/ AcceptTimeout
  \/ AcceptError
  \/ \E c \in Conns, ip \in ClientIPs : AcceptConn(c, ip)
  \/ MainExit

Handler(c) ==
  \/ HandlerStart(c)
  \/ HandlerStartFail(c)
  \/ HandlerAcquire(c)
  \/ HandlerCheck(c)
  \/ HandlerReject(c)
  \/ HandlerRejectLogFail(c)
  \/ HandlerDialOk(c)
  \/ HandlerLogAccepted(c)
  \/ HandlerLogConnected(c)
  \/ \E n \in {0, 1} : HandlerDialOkLogFail(c, n)
  \/ \E d \in Dirs : HandlerStartForward(c, d)
  \/ HandlerDialFail(c)
  \/ HandlerDialFailLogFail(c)

Pump(c, d) ==
  \/ \E got \in {"data", "eof", "error"} : PumpRecv(c, d, got)
  \/ \E ok \in BOOLEAN, n \in ChunkLens : PumpSend(c, d, ok, n)
  \/ PumpLogFail(c, d)
  \/ PumpCloseSource(c, d)
  \/ PumpCloseDestination(c, d)

Next ==
  \/ Console
  \/ Main
  \/ \E c \in Conns : Handler(c)
  \/ \E c \in Conns, d \in Dirs : Pump(c, d)

Spec == Init /\ [][Next]_vars

\* Scheduling: every started thread keeps running, an accept (1 s timeout) and
\* a dial return, a file write ends, a finally block runs to its end. A recv or
\* sendall returns only when the peer acts, and nothing makes a peer act, nor
\* the operator type a line, send end-of-input or press Ctrl+C.
Fairness ==
  /\ WF_vars(ConsoleLoop)
  /\ WF_vars(ConsoleAcquire)
  /\ WF_vars(AddBody \/ RemoveBody \/ ListBody)
  /\ WF_vars(SaveOk \/ SaveLogFail
               \/ \E left \in {file, CorruptFile} : SaveFail(left))
  /\ WF_vars(ListenerCheck)
  /\ WF_vars(AcceptTimeout \/ AcceptError
               \/ \E c \in Conns, ip \in ClientIPs : AcceptConn(c, ip))
  /\ WF_vars(MainExit)
  /\ \A c \in Conns : WF_vars(Handler(c))
  /\ \A c \in Conns, d \in Dirs :
       WF_vars(PumpLogFail(c, d) \/ PumpCloseSource(c, d)
                 \/ PumpCloseDestination(c, d))

FairSpec == Spec /\ Fairness

\* The forwarding side on its own: the console thread runs but nothing is ever
\* typed on it. The console shares no socket, pump or handler state with the
\* connections, so this leaves their behaviours as they are.
ForwardNext ==
  \/ ConsoleLoop
  \/ Main
  \/ \E c \in Conns : Handler(c)
  \/ \E c \in Conns, d \in Dirs : Pump(c, d)

ForwardSpec ==
  /\ Init /\ [][ForwardNext]_vars
  /\ WF_vars(ConsoleLoop)
  /\ WF_vars(ListenerCheck)
  /\ WF_vars(AcceptTimeout \/ AcceptError
               \/ \E c \in Conns, ip \in ClientIPs : AcceptConn(c, ip))
  /\ WF_vars(MainExit)
  /\ \A c \in Conns : WF_vars(Handler(c))
  /\ \A c \in Conns, d \in Dirs :
       WF_vars(PumpLogFail(c, d) \/ PumpCloseSource(c, d)
                 \/ PumpCloseDestination(c, d))

\* The console side on its own: the console, the signal handler and the accept
\* loop, with no client ever connecting.
ConsoleNext ==
  \/ Console
  \/ SignalHandler
  \/ SignalHandlerLogFail
  \/ ListenerCheck
  \/ AcceptTimeout
  \/ AcceptError
  \/ MainExit

ConsoleSpec ==
  /\ Init /\ [][ConsoleNext]_vars
  /\ WF_vars(ConsoleLoop)
  /\ WF_vars(ConsoleAcquire)
  /\ WF_vars(AddBody \/ RemoveBody \/ ListBody)
  /\ WF_vars(SaveOk \/ SaveLogFail
               \/ \E left \in {file, CorruptFile} : SaveFail(left))
  /\ WF_vars(ListenerCheck)
  /\ WF_vars(AcceptTimeout \/ AcceptError)
  /\ WF_vars(MainExit)

\* The threads that use the lock on their own: the console, the listener and
\* every handler up to the return of is_allowed. What a handler does after
\* that (reject, dial, start the pumps) neither reads the list nor touches the
\* lock and is left out. A thread blocked on the lock gets it if the lock
\* keeps becoming free.
LockNext ==
  \/ Console
  \/ Main
  \/ \E c \in Conns : \/ HandlerStart(c)
                       \/ HandlerStartFail(c)
                       \/ HandlerAcquire(c)
                       \/ HandlerCheck(c)

LockSpec ==
  /\ Init /\ [][LockNext]_vars
  /\ WF_vars(ConsoleLoop)
  /\ WF_vars(ConsoleAcquire)
  /\ WF_vars(AddBody \/ RemoveBody \/ ListBody)
  /\ WF_vars(SaveOk \/ SaveLogFail
               \/ \E left \in {file, CorruptFile} : SaveFail(left))
  /\ WF_vars(ListenerCheck)
  /\ WF_vars(AcceptTimeout \/ AcceptError
               \/ \E c \in Conns, ip \in ClientIPs : AcceptConn(c, ip))
  /\ WF_vars(MainExit)
  /\ \A c \in Conns : SF_vars(HandlerAcquire(c))
  /\ \A c \in Conns :
       WF_vars(HandlerStart(c) \/ HandlerStartFail(c) \/ HandlerCheck(c))

\* Shutdown against live connections: the forwarding side together with every
\* way stop_event gets set (the signal handler, end-of-input, an exit command);
\* the operator types nothing but exit commands.
ShutdownNext ==
  \/ ForwardNext
  \/ ConsoleEOF
  \/ \E line \in { Line(w, Junk) : w \in ExitWords } :
       ConsoleInput(line) \/ ConsoleStopLogFail(line)

ShutdownSpec == Init /\ [][ShutdownNext]_vars

\* Removal against live connections: the forwarding side together with a
\* console on which the operator types nothing but remove commands.
RemovalNext ==
  \/ ForwardNext
  \/ \E line \in { Line("remove", t) : t \in NetTexts } : ConsoleInput(line)
  \/ ConsoleAcquire
  \/ RemoveBody
  \/ SaveOk
  \/ SaveLogFail
  \/ \E left \in {file, CorruptFile} : SaveFail(left)

RemovalSpec == Init /\ [][RemovalNext]_vars

(* ================================ claims =============================== *)
Range(seq) == { seq[i] : i \in 1..Len(seq) }
Count(seq, x) == Cardinality({ i \in 1..Len(seq) : seq[i] = x })

\* the handler thread of c is over: handle_client returned, or an exception
\* ended it
HandlerEnded(c) == conn[c].pc \in {"done", "dead"}

\* C1: a connection whose allow check failed is never dialled, gets no byte
\* pump, and has its client socket closed once its handler is over. The first
\* three conjuncts hold. The last does not: the rejection is logged before
\* the socket is closed, and a log_event that raises ends the handler with
\* the socket open.
C1_RejectedNeverDialled ==
  \A c \in Conns :
    conn[c].allowed = "no" =>
      /\ conn[c].dials = 0
      /\ conn[c].server = "none"
      /\ \A d \in Dirs : conn[c].pump[d] = "idle"
      /\ HandlerEnded(c) => conn[c].client = "closed"

\* standard prefix containment: the address is a bare address of the network's
\* family and agrees with the network on its first plen bits
LiesWithin(t, net) ==
  /\ t.kind = "bare"
  /\ t.ver = net.ver
  /\ t.addr \div Pow2(AddrBits - net.plen) = net.addr \div Pow2(AddrBits - net.plen)

Reordered(nets, p) == [i \in 1..Len(nets) |-> nets[p[i]]]

\* C2: whenever a handler evaluates is_allowed against the list, then for every
\* address text the result is true exactly when the address lies within some
\* listed network, whatever the order of the entries; text that is no address
\* gives false.
C2_CheckAllowedIsContainment ==
  (\E c \in Conns : conn[c].pc = "check") =>
    \A t \in AllIPTexts :
      /\ is_allowed(t, allowed_networks) <=> \E net \in Range(allowed_networks) : LiesWithin(t, net)
      /\ \A p \in Permutations(1..Len(allowed_networks)) :
           is_allowed(t, Reordered(allowed_networks, p)) <=> is_allowed(t, allowed_networks)
      /\ t.kind # "bare" => ~is_allowed(t, allowed_networks)

\* a handler is evaluating is_allowed for an address that the second entry of
\* the list covers and the first does not, while some address is covered by none
C2_Witness ==
  \E c \in Conns :
    /\ conn[c].pc = "check"
    /\ Len(allowed_networks) = 2
    /\ ~LiesWithin(conn[c].ip, allowed_networks[1])
    /\ LiesWithin(conn[c].ip, allowed_networks[2])
    /\ is_allowed(conn[c].ip, allowed_networks)
    /\ \E t \in AllIPTexts : t.kind = "bare" /\ ~is_allowed(t, allowed_networks)

\* a direction of c has left its loop (its finally block is running or over)
PumpEnded(c) == \E d \in Dirs : conn[c].pump[d] \in {"fin", "fin2", "done", "dead"}
\* both directions of c are over (their threads have ended) and both sockets
\* are closed
PairDown(c) ==
  /\ \A d \in Dirs : conn[c].pump[d] \in {"done", "dead"}
  /\ conn[c].client = "closed" /\ conn[c].server = "closed"

\* C3: once either direction of a forwarded connection ends, both sockets get
\* closed and the other direction ends too (unless the process exits first);
\* a direction that is over never leaves exactly one of the sockets open.
\* The first conjunct holds. The second does not: close() does not wake the
\* other direction's recv or sendall if that call is already under way, and
\* it stays there for as long as the peer neither sends nor closes; and a
\* direction whose completion record cannot be written closes neither socket.
C3_Teardown ==
  /\ [](\A c \in Conns : \A d \in Dirs :
          conn[c].pump[d] = "done" =>
            conn[c].client = "closed" /\ conn[c].server = "closed")
  /\ \A c \in Conns : PumpEnded(c) ~> (PairDown(c) \/ ~Alive)

NoDuplicates(nets) == \A i, j \in 1..Len(nets) : i # j => nets[i] # nets[j]

\* one console command applied to a list with nothing else running
SeqApply(nets, line) ==
  IF line.op \notin {"add", "remove"} \/ ip_network(line.arg) = ValueError THEN nets
  ELSE IF line.op = "add"
    THEN IF ip_network(line.arg) \in Range(nets) THEN nets
         ELSE Append(nets, ip_network(line.arg))
  ELSE ListRemove(nets, ip_network(line.arg))

\* C4: with console commands interleaved with allow checks, the list never
\* holds a duplicate, every finished command leaves the list that applying it
\* alone would leave, and an allow check sees the list only while it holds the
\* lock and the console is outside its locked section.
C4_NoDuplicateNoLostUpdate ==
  /\ NoDuplicates(allowed_networks)
  /\ (consolePc = "loop" /\ cmd.op \in {"add", "remove"})
       => allowed_networks = SeqApply(prevList, cmd)
  /\ \A c \in Conns :
       conn[c].pc = "check" =>
         /\ allowed_lock = LockHandler(c)
         /\ consolePc \notin {"add_body", "rem_body", "list_body", "save"}

\* C5: adding a valid network that is not in the list reports Added, leaves
\* exactly one entry for it, and the file that add wrote loads back to a list
\* with the same members. An add reaches its save exactly when its network is
\* valid and was not found in the list. The first conjunct (an add that got
\* back to the console loop) holds. The second (every add that reaches its
\* save ends that way) does not: when the write raises, or the log_event after
\* it, the console thread ends with the entry appended and Added never
\* printed, and after a failed write the file does not load back to the list.
C5_AddRoundTrip ==
  /\ []((/\ consolePc = "loop" /\ cmd.op = "add"
         /\ ip_network(cmd.arg) # ValueError
         /\ ~InList(ip_network(cmd.arg), prevList))
          => /\ out = "Added"
             /\ Count(allowed_networks, ip_network(cmd.arg)) = 1
             /\ Range(load_allowed_networks(file)) = Range(allowed_networks)
             /\ file.kind = "ok" /\ Len(file.data) = Len(allowed_networks))
  /\ [][(consolePc = "save" /\ cmd.op = "add" /\ consolePc' # "save")
          => /\ consolePc' = "loop" /\ out' = "Added"
             /\ Count(allowed_networks', ip_network(cmd.arg)) = 1
             /\ Range(load_allowed_networks(file')) = Range(allowed_networks')]_vars

\* C6: once remove has reported Removed for a network, the list holds no entry
\* equal to it, and an address that only this network covered is refused.
C6_RemovedIsGone ==
  (cmd.op = "remove" /\ out = "Removed")
    => /\ ~InList(ip_network(cmd.arg), allowed_networks)
       /\ \A t \in ClientIPs :
            (/\ LiesWithin(t, ip_network(cmd.arg))
             /\ \A net \in Range(allowed_networks) :
                  net # ip_network(cmd.arg) => ~LiesWithin(t, net))
              => ~is_allowed(t, allowed_networks)

\* C7: the allow-list, as loaded from the file at startup and after any
\* commands, never holds two equal entries.
C7_NoDuplicates == NoDuplicates(allowed_networks)

\* the text names a network whose address has bits set beyond its prefix
HasHostBits(t) == t.kind = "cidr" /\ t.addr % Pow2(AddrBits - t.plen) # 0
\* the network a text names once its host bits are masked off
Masked(t) ==
  IF t.kind = "bare" THEN [ver |-> t.ver, addr |-> t.addr, plen |-> AddrBits]
  ELSE [ver |-> t.ver, addr |-> t.addr - (t.addr % Pow2(AddrBits - t.plen)), plen |-> t.plen]

\* C8 as stated: whatever network text add is given, the entry with its host
\* bits masked is in the list once the command is over.
C8_MaskedOnInsert ==
  (consolePc = "loop" /\ cmd.op = "add" /\ cmd.arg.kind # "junk")
    => InList(Masked(cmd.arg), allowed_networks)

\* C8 amended: add and remove refuse a text with host bits set and change
\* nothing; otherwise the text names the network with the prefix it gives (full
\* length for a bare address), and add and remove act on the entry equal to
\* that network, however the text spelled it.
C8_StrictParse ==
  (consolePc = "loop" /\ cmd.op \in {"add", "remove"} /\ cmd.arg.kind # "junk")
    => IF HasHostBits(cmd.arg)
         THEN out = "InvalidFormat" /\ allowed_networks = prevList
         ELSE /\ cmd.op = "add" =>
                   /\ InList(Masked(cmd.arg), allowed_networks)
                   /\ out = (IF InList(Masked(cmd.arg), prevList) THEN "AlreadyPresent" ELSE "Added")
              /\ cmd.op = "remove" =>
                   /\ out = (IF InList(Masked(cmd.arg), prevList) THEN "Removed" ELSE "NotFound")
                   /\ Count(allowed_networks, Masked(cmd.arg))
                        = (IF InList(Masked(cmd.arg), prevList)
                             THEN Count(prevList, Masked(cmd.arg)) - 1 ELSE 0)

\* add was given a network text with host bits set and refused it
C8_Witness ==
  /\ consolePc = "loop" /\ cmd = Line("add", Cidr(4, 1, AddrBits - 1))
  /\ out = "InvalidFormat"
  /\ ~InList(Masked(cmd.arg), allowed_networks)

\* C9: a failed write of the allow-list file is reported on the console and
\* goes no further: the lock is released and the console loop keeps running.
\* A step that ends the save with the file not holding the list is a failed
\* write.
C9_SaveFailureContained ==
  [][(/\ consolePc = "save" /\ consolePc' # "save"
      /\ file' # save_allowed_networks(allowed_networks))
       => /\ consolePc' = "loop"
          /\ out' = "SaveError"
          /\ allowed_lock' # LockConsole
          /\ Alive']_vars

\* the console loop is over: it left the loop, or an exception ended its thread
ConsoleLoopEnded == consolePc \in {"exited", "dead"}

\* C10 as stated: once stop_event is set, the console read loop exits.
C10_ConsoleExits == stop_event ~> ConsoleLoopEnded

\* C10 amended: once stop_event is set the console never starts waiting for
\* another line, and a console that is not waiting for a line leaves its loop
\* (or the process exits first). A console already waiting in input() when the
\* flag is set is not covered: it stays there until a line or end-of-input
\* arrives or the process exits.
C10_ExitsAtNextLoopTest ==
  /\ [][(stop_event /\ consolePc # "input") => consolePc' # "input"]_vars
  /\ (stop_event /\ consolePc # "input") ~> (ConsoleLoopEnded \/ ~Alive)

\* the console left its loop at the loop test, the flag having been set by
\* something other than an exit command
C10_Witness ==
  consolePc = "exited" /\ stop_event /\ out # "Stopping" /\ Alive

\* the accept loop of start_proxy is over
ListenerExited == mainPc \in {"stopped", "raised", "terminated"}

\* C11: once stop_event is set the accept loop exits, and it does so at its
\* next loop test (a pending accept may still time out or return one
\* connection first); after the exit no connection slot is ever taken; an
\* accept timeout never ends the loop, and while stop_event is unset neither
\* does the loop test: the loop then ends only by an exception (accept
\* raising another error, or the signal handler's log_event raising).
C11_ListenerExits ==
  /\ stop_event ~> ListenerExited
  /\ [][(stop_event /\ mainPc = "check") => ListenerExited']_mainPc
  /\ [][ListenerExited =>
         /\ ListenerExited'
         /\ \A c \in Conns : conn[c].pc = "free" => conn'[c].pc = "free"]_vars
  /\ [][AcceptTimeout => ~ListenerExited']_vars
  /\ [][(~stop_event /\ ~ListenerExited /\ ListenerExited')
          => (mainPc \in {"check", "accept"} /\ mainPc' = "raised")]_vars

\* the loop has ended after it dispatched a connection, and the process has
\* not exited yet
C11_Witness ==
  /\ mainPc = "stopped" /\ stop_event
  /\ \E c \in Conns : conn[c].pc # "free"

\* C12: stop_event starts false and no step takes it from true to false:
\* every step that changes it sets it, and a step taken while it is set leaves
\* it set.
C12_FlagMonotonic ==
  /\ stop_event = FALSE
  /\ [][stop_event' # stop_event => (~stop_event /\ stop_event')]_vars
  /\ [][stop_event => stop_event']_vars

\* an exit command set the flag and it is still set when the process has exited
C12_Witness ==
  stop_event /\ consolePc = "exited" /\ out = "Stopping" /\ mainPc = "terminated"

\* the handler of c is over after its dial failed
DialFailed(c) ==
  conn[c].allowed = "yes" /\ HandlerEnded(c) /\ conn[c].server = "none"

\* C13: a handler whose dial failed has closed the client socket, logged the
\* dial error right after the arrival record, dialled once and started no
\* pump; no connection is ever dialled twice; a pump exists only for a
\* connection that passed the allow check and whose single dial succeeded.
\* All of it holds but the first two conjuncts: the dial error is logged
\* before the socket is closed, and a log_event that raises ends the handler
\* with the socket open and no record.
C13_DialFailure ==
  \A c \in Conns :
    /\ DialFailed(c) =>
         /\ conn[c].client = "closed"
         /\ conn[c].log = <<LogAttempt, LogDialError>>
         /\ conn[c].dials = 1
         /\ \A d \in Dirs : conn[c].pump[d] = "idle"
    /\ conn[c].dials <= 1
    /\ \A d \in Dirs :
         conn[c].pump[d] # "idle" =>
           /\ conn[c].allowed = "yes"
           /\ conn[c].dials = 1
           /\ conn[c].server # "none"

\* what the console prints for a command that is no successful mutation
NonMutatingOut == {"InvalidFormat", "AlreadyPresent", "NotFound", "Listed", "Usage"}

\* a step of the console thread that is neither the list change of a
\* successful add or remove, nor its save, nor an exit command or end-of-input
NonMutatingStep ==
  /\ consolePc' # consolePc
  /\ consolePc' # "save" /\ consolePc # "save"
  /\ ~(consolePc = "input" /\ (consolePc' = "exited" \/ cmd' = NoLine))

\* C14: a command that ends with InvalidFormat, AlreadyPresent, NotFound, a
\* listing or the usage hint leaves the list as it was when the line was read;
\* it never passes through the save step; and every console step outside a
\* successful mutation, its save and the exit paths leaves the list, the file
\* and stop_event unchanged.
C14_NonMutatingFrame ==
  /\ []((consolePc = "loop" /\ out \in NonMutatingOut) => allowed_networks = prevList)
  /\ [][(consolePc # "loop" /\ consolePc' = "loop" /\ out' \in NonMutatingOut)
          => consolePc \in {"input", "add_body", "rem_body", "list_body"}]_vars
  /\ [][NonMutatingStep => UNCHANGED <<file, allowed_networks, stop_event>>]_vars

\* a remove of an absent entry has just ended with a non-empty list untouched
C14_Witness ==
  /\ consolePc = "loop" /\ cmd.op = "remove" /\ out = "NotFound"
  /\ allowed_networks # <<>> /\ allowed_networks = prevList

\* the file holds what some successful add or remove wrote: it is well-formed
\* and is none of the files the program can have started with
WrittenByMutation == file.kind = "ok" /\ file \notin InitFiles

\* C15: whenever the lock is free and the file is one that a successful add or
\* remove wrote, the file loads back to the members of the in-memory list.
C15_FileMatchesList ==
  (allowed_lock = LockFree /\ WrittenByMutation)
    => Range(load_allowed_networks(file)) = Range(allowed_networks)

\* the places where the console reads or writes the list or the file
ConsoleLocked == {"add_body", "rem_body", "list_body", "save"}

\* C16: the console is at a place where it reads or writes the list or the
\* file exactly when it holds the lock, and a handler evaluates the allow
\* check exactly when it holds the lock (so at most one thread is at such a
\* place); the list and the file change only in steps taken with the lock
\* held by the console; and whenever the lock is held or a handler waits for
\* it, a state follows in which it is free and no handler waits (unless the
\* process exits first): a held lock is released, also when the save raises,
\* and a waiting handler gets past it.
C16_LockDiscipline ==
  /\ [](/\ allowed_lock = LockConsole <=> consolePc \in ConsoleLocked
        /\ \A c \in Conns : allowed_lock = LockHandler(c) <=> conn[c].pc = "check")
  /\ [][(allowed_networks' # allowed_networks \/ file' # file)
          => allowed_lock = LockConsole]_vars
  /\ (allowed_lock # LockFree \/ \E c \in Conns : conn[c].pc = "acq")
       ~> \/ allowed_lock = LockFree /\ \A c \in Conns : conn[c].pc # "acq"
          \/ ~Alive

\* a handler has got the lock after the console thread was ended by a save
\* that raised
C16_Witness ==
  exc /\ \E c \in Conns : allowed_lock = LockHandler(c) /\ conn[c].pc = "check"

\* a step of the shutdown path: stop_event gets set, the accept loop ends (at
\* its loop test or by an exception), or the process exits
ShutdownStep ==
  \/ stop_event' # stop_event
  \/ mainPc' \in {"stopped", "raised", "terminated"} /\ mainPc' # mainPc

\* direction d of c is in its loop
Pumping(c, d) == conn[c].pump[d] \in {"recv", "send"}

\* C17: no step of the shutdown path changes anything about a connection
\* (handler position, sockets, pumps); a pump leaves its loop only in a step of
\* its own, on an empty read or an error of recv or sendall (a call on a socket
\* the other direction has closed included); and while the process runs a pump
\* waiting in recv can still receive data, whatever the flag and the listener.
\* The second and third conjuncts hold. The first does not: no step of the
\* shutdown path closes a socket itself, but the return of start_proxy drops
\* the last reference to the client socket of the connection accepted last if
\* exceptions of log_event ended all its threads without closing it, and the
\* socket is closed with that.
C17_ShutdownLeavesConnections ==
  /\ [][ShutdownStep => conn' = conn]_vars
  /\ [][\A c \in Conns : \A d \in Dirs :
          (Pumping(c, d) /\ ~Pumping(c, d)')
            => /\ conn'[c].pump[d] = "fin"
               /\ \/ PumpRecv(c, d, "eof") \/ PumpRecv(c, d, "error")
                  \/ /\ PumpRecv(c, d, "data")
                     /\ SockState(c, Destination(d)) = "closed"
                  \/ \E n \in ChunkLens : PumpSend(c, d, FALSE, n)
                  \/ /\ \E n \in ChunkLens : PumpSend(c, d, TRUE, n)
                     /\ SockState(c, Source(d)) = "closed"]_vars
  /\ [](\A c \in Conns : \A d \in Dirs :
          (Alive /\ conn[c].pump[d] = "recv"
             /\ SockState(c, Destination(d)) = "open")
            => ENABLED (PumpRecv(c, d, "data") /\ conn'[c].pump[d] = "send"))

\* s extends r: r is what s began with
IsPrefix(r, s) == Len(r) <= Len(s) /\ SubSeq(s, 1, Len(r)) = r

\* the logs of a handler that is over: the arrival record and one outcome
\* (the acceptance is two records)
HandlerLogs ==
  { <<LogAttempt, LogRejected>>, <<LogAttempt, LogDialError>>,
    <<LogAttempt, LogAccepted, LogConnected>> }

\* a direction of c has left its loop and its finally block has passed the
\* log_event call
Logged(c, d) == conn[c].pump[d] \in {"fin2", "done", "dead"}

\* C18: the records of a connection are only ever added to; the handler's
\* records are the arrival record followed by exactly one of rejection, dial
\* error or acceptance (once the handler is over); the pumps are started only
\* after the acceptance has been logged, and both are by the time the handler
\* is over; a direction has one completion
\* record once it is past the log_event of its finally block and none before,
\* that record is written only after the acceptance record, names the
\* direction, and its Bytes figure is the total size of the chunks that
\* direction wrote completely. The order of the records that get written
\* holds; that they are written does not: a log_event that raises ends the
\* calling thread, which leaves a handler without its arrival or outcome
\* record, an acceptance record with no pump started, or a direction without
\* its completion record.
C18_LogOrder ==
  /\ [][\A c \in Conns :
          conn[c].pc # "free" =>
            /\ IsPrefix(conn[c].log, conn'[c].log)
            /\ \A d \in Dirs : IsPrefix(conn[c].fwdlog[d], conn'[c].fwdlog[d])]_vars
  /\ [](\A c \in Conns :
          /\ \E full \in HandlerLogs : IsPrefix(conn[c].log, full)
          /\ conn[c].pc \in {"free", "start"} <=> conn[c].log = <<>>
          /\ HandlerEnded(c) => conn[c].log \in HandlerLogs
          /\ \A d \in Dirs :
               /\ conn[c].pump[d] # "idle" => LogConnected \in Range(conn[c].log)
               /\ (HandlerEnded(c) /\ LogAccepted \in Range(conn[c].log))
                    => conn[c].pump[d] # "idle"
               /\ conn[c].fwdlog[d] =
                    (IF Logged(c, d) THEN <<LogClosed(d, 0)>> ELSE <<>>))

\* C19 as stated: once stop_event is set, no step changes the list or the file.
C19_NoMutationAfterStop ==
  [][stop_event => UNCHANGED <<file, allowed_networks>>]_vars

\* stop_event is set and the console is not in the middle of a command nor
\* waiting for a line: it is at its loop test or its loop is over
Quiesced == stop_event /\ consolePc \in {"loop", "exited", "dead"}

\* C19 amended: once stop_event is set and the console is at its loop test (or
\* its loop is over), it stays so and the list and the file never change
\* again; and once stop_event is set the console never starts waiting for
\* another line. The command in progress when the flag is set, and the one
\* line a console already blocked in input() then reads, are still carried
\* out, an add or remove included.
C19_NoMutationOnceObserved ==
  /\ [][Quiesced => (Quiesced' /\ UNCHANGED <<file, allowed_networks>>)]_vars
  /\ [][(stop_event /\ consolePc # "input") => consolePc' # "input"]_vars

\* a remove has been carried out and saved with the flag set; the console is
\* at its loop test
C19_Witness ==
  stop_event /\ consolePc = "loop" /\ out = "Removed" /\ Alive

\* c is forwarded: both sockets open, both directions in their loops
Established(c) ==
  /\ conn[c].client = "open" /\ conn[c].server = "open"
  /\ \A d \in Dirs : Pumping(c, d)

\* C20: the allow check of a connection has no result until the handler has
\* evaluated it, and no dial is made without the result yes; once it has a
\* result the result never changes and the handler never goes back to the
\* check; no step of the console (a remove and its save included) changes
\* anything about a connection; a handler whose check passed can dial, and a
\* pump of a forwarded connection can receive, also when the list no longer
\* covers the connection's address.
C20_CheckedOnceBeforeDial ==
  /\ [](\A c \in Conns :
          /\ conn[c].allowed = "unset"
               <=> \/ conn[c].pc \in {"free", "start", "acq", "check"}
                   \/ conn[c].pc = "dead" /\ conn[c].log = <<>>
          /\ conn[c].dials > 0 => conn[c].allowed = "yes")
  /\ [][\A c \in Conns :
          conn[c].allowed # "unset" =>
            /\ conn'[c].allowed = conn[c].allowed
            /\ conn'[c].pc \notin {"start", "acq", "check"}]_vars
  /\ [][(consolePc' # consolePc \/ allowed_networks' # allowed_networks \/ file' # file)
          => conn' = conn]_vars
  /\ [](\A c \in Conns :
          (Alive /\ ~is_allowed(conn[c].ip, allowed_networks)) =>
            /\ conn[c].pc = "dial" => ENABLED HandlerDialOk(c)
            /\ \A d \in Dirs :
                 (conn[c].pump[d] = "recv" /\ SockState(c, Source(d)) = "open")
                   => ENABLED PumpRecv(c, d, "data"))

\* a connection is being forwarded after a remove took away the network that
\* covered its address: the list now refuses that address
C20_Witness ==
  /\ consolePc = "loop" /\ cmd.op = "remove" /\ out = "Removed"
  /\ \E c \in Conns :
       /\ Established(c)
       /\ LiesWithin(conn[c].ip, ip_network(cmd.arg))
       /\ ~is_allowed(conn[c].ip, allowed_networks)

====
